---- MODULE Spec2Model ----
(***************************************************************************)
(* Model of the rockfall-prediction backend (backend/server.js, kept as    *)
(* src/unnamed/part_001): the simulation state, the alert list, the        *)
(* settings, the 3-second tick and the HTTP handlers; and of the Dashboard *)
(* page that polls it (src/src/pages/Login.jsx): its interval timers and   *)
(* its settings requests.                                                  *)
(*                                                                         *)
(* Numbers.  A JavaScript number is modelled as an exact rational <<n, d>> *)
(* in lowest terms (d > 0) and NaN as the empty tuple, so the arithmetic   *)
(* is exact where the program's is IEEE double arithmetic.  The two agree  *)
(* on the digits toFixed prints except where the exact value is halfway    *)
(* between two printable ones (there the double lies to one side and the   *)
(* digit depends on its error), so the values sampled are off such ties.   *)
(* Math.random() is a nondeterministic choice from a small sample of its   *)
(* range [0,1).                                                            *)
(* Date.now() is the variable now, in milliseconds; an ISO time string is  *)
(* modelled by the millisecond value it encodes.                           *)
(***************************************************************************)
EXTENDS Integers, Sequences, FiniteSets, TLC

VARIABLES simulation, alerts, settings, now, nextTick, events, last, running,
          dashboard

vars == <<simulation, alerts, settings, now, nextTick, events, last, running,
         dashboard>>

(***************************************************************************)
(* Bounds of the exploration                                               *)
(***************************************************************************)
StartTime == 1000      \* Date.now() when the process starts
MaxLag == 0            \* milliseconds explored one by one after a timer start
MaxEvents == 2         \* ticks and requests explored

(***************************************************************************)
(* Program constants                                                       *)
(***************************************************************************)
RainMax == 300             \* Math.min(300, ...)
SeismicMax == 10           \* Math.min(10, ...)
BlastMax == 100            \* Math.min(100, ...)
RainAlert == 150           \* simulation.rainfallMm > 150
SeismicAlert == 6          \* simulation.seismicMag > 6
AlertCap == 50             \* alerts.slice(0, 50)
TickInterval == 3000       \* setInterval(..., 3000), milliseconds
SimIdSpread == 1000        \* Math.floor(Math.random() * 1000)
HourMs == 3600000          \* 3600 * 1000

(***************************************************************************)
(* JavaScript numbers                                                      *)
(***************************************************************************)
RECURSIVE Gcd(_, _)
Gcd(a, b) == IF b = 0 THEN a ELSE Gcd(b, a % b)

Abs(n) == IF n < 0 THEN -n ELSE n

\* the rational n/d (d > 0) in lowest terms
Q(n, d) == LET g == Gcd(Abs(n), d) IN <<n \div g, d \div g>>
Whole(n) == <<n, 1>>

NaN == <<>>
IsNaN(x) == x = NaN

\* a + b, a * b, a / b (b > 0): NaN if either operand is NaN.  The operands
\* are reduced before they are multiplied, to keep the integers small.
Plus(a, b) ==
    IF IsNaN(a) \/ IsNaN(b) THEN NaN
    ELSE LET g == Gcd(a[2], b[2])
         IN  Q(a[1] * (b[2] \div g) + b[1] * (a[2] \div g),
               (a[2] \div g) * b[2])
Times(a, b) ==
    IF IsNaN(a) \/ IsNaN(b) THEN NaN
    ELSE LET g1 == Gcd(Abs(a[1]), b[2])
             g2 == Gcd(Abs(b[1]), a[2])
         IN  Q((a[1] \div g1) * (b[1] \div g2),
               (a[2] \div g2) * (b[2] \div g1))
Div(a, b) == IF IsNaN(a) \/ IsNaN(b) THEN NaN ELSE Times(a, <<b[2], b[1]>>)

\* a < b, a > b, a >= b: every comparison with NaN is false
Lt(a, b) ==
    /\ ~IsNaN(a)
    /\ ~IsNaN(b)
    /\ LET g == Gcd(a[2], b[2])
       IN  a[1] * (b[2] \div g) < b[1] * (a[2] \div g)
Gt(a, b) == Lt(b, a)
Ge(a, b) == ~IsNaN(a) /\ ~IsNaN(b) /\ ~Lt(a, b)

\* Math.min / Math.max: NaN if either argument is NaN
MathMin(a, b) == IF IsNaN(a) \/ IsNaN(b) THEN NaN
                 ELSE IF Lt(b, a) THEN b ELSE a
MathMax(a, b) == IF IsNaN(a) \/ IsNaN(b) THEN NaN
                 ELSE IF Gt(b, a) THEN b ELSE a

\* 10^p
RECURSIVE Pow10(_)
Pow10(p) == IF p = 0 THEN 1 ELSE 10 * Pow10(p - 1)

\* x rounded to the nearest multiple of 10^-p, ties away from zero, as the
\* integer count of such multiples
RoundedUnits(x, p) ==
    LET n == Abs(x[1]) * Pow10(p)
        u == (2 * n + x[2]) \div (2 * x[2])
    IN  IF x[1] < 0 THEN -u ELSE u

\* x.toFixed(p): a decimal string, modelled by its digits and its number of
\* decimals; NaN.toFixed(p) is the string "NaN"
NaNString == [nan |-> TRUE, units |-> 0, places |-> 0]
ToFixed(x, p) == IF IsNaN(x) THEN NaNString
                 ELSE [nan |-> FALSE, units |-> RoundedUnits(x, p), places |-> p]

\* Number(s) of a string produced by toFixed
NumberOfString(s) == IF s.nan THEN NaN ELSE Q(s.units, Pow10(s.places))

\* JSON values of a request body: absent, a number, a string, null
Undefined == <<"undefined">>
JNum(q) == <<"number", q>>
JStr(s) == <<"string", s>>
JNull == <<"null">>

\* Number(v): a number as it is, null is 0, a string that is no numeral is NaN
ToNumber(v) == IF v[1] = "number" THEN v[2]
               ELSE IF v[1] = "null" THEN Whole(0)
               ELSE NaN

(***************************************************************************)
(* Static data                                                             *)
(***************************************************************************)
zones == <<
    [id |-> 1, name |-> "Sector A - West Wall", baseRisk |-> Q(75, 100)],
    [id |-> 2, name |-> "Sector B - East Wall", baseRisk |-> Q(45, 100)],
    [id |-> 3, name |-> "Sector C - North Slope", baseRisk |-> Q(25, 100)] >>

RECURSIVE SumBaseRisk(_)
SumBaseRisk(i) == IF i = 0 THEN Whole(0)
                  ELSE Plus(SumBaseRisk(i - 1), zones[i].baseRisk)

\* The score as a percentage: composite * 100.
computeRiskScorePercent(sim) ==
    LET avgBase == Div(SumBaseRisk(Len(zones)), Whole(Len(zones)))
        rainInfluence == MathMin(Whole(1), Div(sim.rainfallMm, Whole(200)))
        seismicInfluence == MathMin(Whole(1), Div(sim.seismicMag, Whole(8)))
        blastInfluence == MathMin(Whole(1), Div(sim.blastingLevel, Whole(100)))
        composite == Plus(Plus(Plus(Times(avgBase, Q(6, 10)),
                                    Times(rainInfluence, Q(2, 10))),
                               Times(seismicInfluence, Q(15, 100))),
                          Times(blastInfluence, Q(5, 100)))
    IN  ToFixed(Times(composite, Whole(100)), 1)

\* The influences taken over the clamp ceilings 300 and 10.
computeRiskScoreOverCeilings(sim) ==
    LET avgBase == Div(SumBaseRisk(Len(zones)), Whole(Len(zones)))
        rainInfluence == MathMin(Whole(1), Div(sim.rainfallMm, Whole(300)))
        seismicInfluence == MathMin(Whole(1), Div(sim.seismicMag, Whole(10)))
        blastInfluence == MathMin(Whole(1), Div(sim.blastingLevel, Whole(100)))
        composite == Plus(Plus(Plus(Times(avgBase, Q(6, 10)),
                                    Times(rainInfluence, Q(2, 10))),
                               Times(seismicInfluence, Q(15, 100))),
                          Times(blastInfluence, Q(5, 100)))
    IN  ToFixed(Times(composite, Whole(10)), 1)

\* computeRiskScore() on the simulation state sim: a string with one decimal
computeRiskScore(sim) ==
    LET avgBase == Div(SumBaseRisk(Len(zones)), Whole(Len(zones)))
        rainInfluence == MathMin(Whole(1), Div(sim.rainfallMm, Whole(200)))
        seismicInfluence == MathMin(Whole(1), Div(sim.seismicMag, Whole(8)))
        blastInfluence == MathMin(Whole(1), Div(sim.blastingLevel, Whole(100)))
        composite == Plus(Plus(Plus(Times(avgBase, Q(6, 10)),
                                    Times(rainInfluence, Q(2, 10))),
                               Times(seismicInfluence, Q(15, 100))),
                          Times(blastInfluence, Q(5, 100)))
    IN  ToFixed(Times(composite, Whole(10)), 1)

(***************************************************************************)
(* Math.random(): a sample of [0,1)                                        *)
(***************************************************************************)
RandomSamples == {Q(0, 1), Q(3, 4)}

\* Math.floor(x) for x >= 0
Floor(x) == x[1] \div x[2]

(***************************************************************************)
(* Alerts                                                                  *)
(***************************************************************************)
\* A message is modelled by its fixed text followed by the values embedded
\* in it.
ExceededText == "Rockfall probability exceeded"
MalfunctionText == "Sensor malfunction: irregular readings detected"
SimulatedText == "Simulation triggered HIGH-RISK conditions"
PiezometerText == "Piezometer S002 showing irregular readings"

\* msg.includes("probability exceeded")
IncludesProbabilityExceeded(msg) == msg[1] = ExceededText

InitialAlerts(boot) == <<
    [id |-> 1, zone |-> "Sector A - West Wall",
     msg |-> <<ExceededText, ToFixed(Whole(85), 0)>>,
     severity |-> "High", time |-> boot, acknowledged |-> FALSE],
    [id |-> 2, zone |-> "Sensor Network",
     msg |-> <<PiezometerText>>,
     severity |-> "Medium", time |-> boot - HourMs, acknowledged |-> FALSE] >>

\* Rule 1 with its negation around the whole test.
Rule1NegationMisplaced(currentRisk, as) ==
    ~(Ge(currentRisk, Q(75, 10))
      /\ \E i \in 1..Len(as) :
            IncludesProbabilityExceeded(as[i].msg) /\ ~as[i].acknowledged)

\* The test of rule 1: the risk is at least 7.5 and no unacknowledged alert
\* has "probability exceeded" in its message.
Rule1Applies(currentRisk, as) ==
    /\ Ge(currentRisk, Q(75, 10))
    /\ ~\E i \in 1..Len(as) :
            IncludesProbabilityExceeded(as[i].msg) /\ ~as[i].acknowledged

\* The test of rule 2 on the draw r: Math.random() < 0.02 + blastingLevel/5000
Rule2Applies(r, sim) ==
    Lt(r, Plus(Q(2, 100), Div(sim.blastingLevel, Whole(5000))))

ExceededAlert(currentRisk, t) ==
    [id |-> t, zone |-> "Sector A - West Wall",
     msg |-> <<ExceededText, ToFixed(Times(currentRisk, Whole(10)), 0)>>,
     severity |-> "High", time |-> t, acknowledged |-> FALSE]

MalfunctionAlert(t) ==
    [id |-> t + 1, zone |-> "Sensor Network",
     msg |-> <<MalfunctionText>>,
     severity |-> "Medium", time |-> t, acknowledged |-> FALSE]

\* The truncation keeping the oldest entries: alerts.slice(-AlertCap).
TruncateKeepingOldest(as) ==
    IF Len(as) > AlertCap
    THEN SubSeq(as, Len(as) - AlertCap + 1, Len(as)) ELSE as

\* alerts.slice(0, AlertCap) when the list is longer than AlertCap
Truncate(as) == IF Len(as) > AlertCap THEN SubSeq(as, 1, AlertCap) ELSE as

\* maybeCreateAlert() on the simulation state sim and the list as, at time t,
\* with r the draw of rule 2: the new list
maybeCreateAlert(sim, as, t, r) ==
    LET currentRisk == NumberOfString(computeRiskScore(sim))
        a1 == IF Rule1Applies(currentRisk, as)
              THEN <<ExceededAlert(currentRisk, t)>> \o as ELSE as
        a2 == IF Rule2Applies(r, sim)
              THEN <<MalfunctionAlert(t)>> \o a1 ELSE a1
    IN  Truncate(a2)

(***************************************************************************)
(* Settings                                                                *)
(***************************************************************************)
InitialSettings == [
    profile |-> [name |-> "Mine Admin", email |-> "admin@minescope.ai",
                 role |-> "Admin"],
    preferences |-> [refreshInterval |-> 10, units |-> "metric",
                     language |-> "en", theme |-> "dark"],
    alerts |-> [vibrationThreshold |-> 3, crackThreshold |-> 2,
                tempThreshold |-> 35, notifyEmail |-> TRUE,
                notifySMS |-> FALSE, notifyPush |-> TRUE],
    ai |-> [sensitivity |-> "balanced", explainable |-> TRUE] ]

(***************************************************************************)
(* State                                                                   *)
(***************************************************************************)
\* last: the most recent event (a handler, the tick, or time passing) and,
\* for a request, what it carried (a body or the :id parameter) and the
\* status and the body of its response
Event(op, req, status, body) ==
    [op |-> op, req |-> req, status |-> status, body |-> body]
NoBody == <<>>

\* running: the callback the event loop is executing, with the statement it
\* is at (pc), its request and the state it started from; Idle between
\* callbacks.  Where a callback is modelled as one action, running stays
\* Idle.
Idle == [op |-> "idle"]

\* dashboard: the Dashboard page in the browser and the interval timers it
\* has created.
\*   phase          absent (not rendered yet), mounted, unmounted
\*   settings       the settings state of the component (loaded tells
\*                  whether it is still null)
\*   theme          the theme class on the document element
\*   refreshRef, intervalRef   the two refs
\*   timers         the interval timers that are active, each with the id
\*                  setInterval returned and its period
\*   nextId         the id the next setInterval returns
\*   fired          the timer whose callback ran last
\*   fetchSettings  the request of fetchSettings: none, sent, done, failed
\*   panel          the SettingsPanel: closed, loading, ready, with its
\*                  settings state in panelSettings
\*   save           the request of the panel's save: none, sent, orphaned
\*                  (sent by a panel that has been unmounted since), with
\*                  the settings it posted in saveBody
DefaultRefreshMs == 10000
DefaultRefreshSec == 10
MinRefreshSec == 2
NullTimer == 0

NotRendered ==
    [phase |-> "absent", loaded |-> FALSE, settings |-> InitialSettings,
     theme |-> "none", refreshRef |-> DefaultRefreshMs,
     intervalRef |-> NullTimer, timers |-> {}, nextId |-> 1,
     fired |-> NullTimer, fetchSettings |-> "none", panel |-> "closed",
     panelSettings |-> InitialSettings, save |-> "none",
     saveBody |-> InitialSettings]

Init ==
    /\ simulation = [rainfallMm |-> Whole(0), seismicMag |-> Whole(0),
                     blastingLevel |-> Whole(0)]
    /\ alerts = InitialAlerts(StartTime)
    /\ settings = InitialSettings
    /\ now = StartTime
    /\ nextTick = StartTime + TickInterval
    /\ events = 0
    /\ last = Event("start", NoBody, 0, NoBody)
    /\ running = Idle
    /\ dashboard = NotRendered

(***************************************************************************)
(* Time and the periodic tick                                              *)
(***************************************************************************)
\* The time the running timer period is counted from.
Anchor == IF now >= nextTick THEN nextTick ELSE nextTick - TickInterval

\* Time passes: by one millisecond (explored up to MaxLag after a timer
\* start or deadline) or up to the timer's deadline.
AdvanceClock ==
    /\ \E t \in {now + 1, nextTick} :
          /\ t > now
          /\ t = nextTick \/ t <= Anchor + MaxLag
          /\ events < MaxEvents
          /\ now' = t
    /\ last' = Event("clock", NoBody, 0, NoBody)
    /\ UNCHANGED <<simulation, alerts, settings, nextTick, events,
                   running, dashboard>>

\* The drift of one field: clamp(x + (Math.random() * span - span/2))
Drift(x, r, span, max) ==
    MathMax(Whole(0),
            MathMin(Whole(max),
                    Plus(x, Plus(Times(r, span), Times(span, Q(-1, 2))))))

\* The callback drifting the rainfall from zero too.
TickDriftingFromZero ==
    /\ now >= nextTick
    /\ events < MaxEvents
    /\ \E r1, r2, r3 \in RandomSamples :
          LET sim == [simulation EXCEPT
                         !.rainfallMm = Drift(simulation.rainfallMm, r1,
                                              Whole(4), RainMax),
                         !.seismicMag = Drift(simulation.seismicMag, r2,
                                              Q(2, 10), SeismicMax)]
          IN  /\ simulation' = sim
              /\ alerts' = maybeCreateAlert(sim, alerts, now, r3)
    /\ nextTick' = now + TickInterval
    /\ last' = Event("tick", NoBody, 0, NoBody)
    /\ events' = events + 1
    /\ UNCHANGED <<settings, now, running, dashboard>>

\* The setInterval callback.
Tick ==
    /\ now >= nextTick
    /\ events < MaxEvents
    /\ \E r1, r2, r3 \in RandomSamples :
          LET rain == IF Gt(simulation.rainfallMm, Whole(0))
                      THEN Drift(simulation.rainfallMm, r1, Whole(4), RainMax)
                      ELSE simulation.rainfallMm
              sim == [simulation EXCEPT
                         !.rainfallMm = rain,
                         !.seismicMag = Drift(simulation.seismicMag, r2,
                                              Q(2, 10), SeismicMax)]
          IN  /\ simulation' = sim
              /\ alerts' = maybeCreateAlert(sim, alerts, now, r3)
    /\ nextTick' = now + TickInterval
    /\ last' = Event("tick", NoBody, 0, NoBody)
    /\ events' = events + 1
    /\ UNCHANGED <<settings, now, running, dashboard>>

(***************************************************************************)
(* POST /api/simulation                                                    *)
(***************************************************************************)
Payload(r, s, b) == [rainfallMm |-> r, seismicMag |-> s, blastingLevel |-> b]

\* The request bodies explored: empty; both thresholds met exactly; one
\* threshold passed; every field above, and below, its range; fields that
\* are no numbers.
SimulationPayloads ==
    {Payload(Undefined, Undefined, Undefined),
     Payload(JNum(Whole(150)), JNum(Whole(6)), Undefined),
     Payload(JNum(Whole(151)), Undefined, Undefined),
     Payload(Undefined, JNum(Whole(7)), JNum(Whole(50))),
     Payload(JNum(Whole(500)), JNum(Whole(11)), JNum(Whole(101))),
     Payload(JNum(Whole(-10)), JNum(Whole(-1)), JNum(Whole(-5))),
     Payload(JStr("abc"), Undefined, Undefined),
     Payload(Undefined, JStr("abc"), JStr("abc"))}

IsNumeric(v) == v[1] \in {"undefined", "number"}
NumericPayloads ==
    {b \in SimulationPayloads :
        IsNumeric(b.rainfallMm) /\ IsNumeric(b.seismicMag)
        /\ IsNumeric(b.blastingLevel)}

\* The clamp without its ceiling.
ApplyFieldNoCeiling(cur, v, max) ==
    IF v[1] # "undefined" THEN MathMax(Whole(0), ToNumber(v)) ELSE cur

\* The clamp without its floor.
ApplyFieldNoFloor(cur, v, max) ==
    IF v[1] # "undefined" THEN MathMin(Whole(max), ToNumber(v)) ELSE cur

\* The forEach resetting an absent field.
ApplyFieldAbsentZero(cur, v, max) ==
    IF v[1] # "undefined"
    THEN MathMax(Whole(0), MathMin(Whole(max), ToNumber(v)))
    ELSE Whole(0)

\* One field of the forEach: a present field is coerced and clamped.
ApplyField(cur, v, max) ==
    IF v[1] # "undefined"
    THEN MathMax(Whole(0), MathMin(Whole(max), ToNumber(v)))
    ELSE cur

ApplyPayload(sim, body) ==
    [rainfallMm |-> ApplyField(sim.rainfallMm, body.rainfallMm, RainMax),
     seismicMag |-> ApplyField(sim.seismicMag, body.seismicMag, SeismicMax),
     blastingLevel |->
         ApplyField(sim.blastingLevel, body.blastingLevel, BlastMax)]

\* The test with >= for >.
HighRiskInclusive(sim) == \/ Ge(sim.rainfallMm, Whole(RainAlert))
                          \/ Ge(sim.seismicMag, Whole(SeismicAlert))

\* The test made after the fields are applied.
HighRisk(sim) == \/ Gt(sim.rainfallMm, Whole(RainAlert))
                 \/ Gt(sim.seismicMag, Whole(SeismicAlert))

SimulatedAlert(sim, t, r) ==
    [id |-> t + Floor(Times(r, Whole(SimIdSpread))), zone |-> "Simulated",
     msg |-> <<SimulatedText, sim.rainfallMm, sim.seismicMag>>,
     severity |-> "High", time |-> t, acknowledged |-> FALSE]

\* The handler pushing its alert at the end of the list.
PostSimulationAppending(payloads) ==
    /\ events < MaxEvents
    /\ \E body \in payloads, r \in RandomSamples :
          LET sim == ApplyPayload(simulation, body)
          IN  /\ simulation' = sim
              /\ alerts' = IF HighRisk(sim)
                           THEN alerts \o <<SimulatedAlert(sim, now, r)>>
                           ELSE alerts
              /\ last' = Event("postSimulation", body, 200, sim)
    /\ events' = events + 1
    /\ UNCHANGED <<settings, now, nextTick, running, dashboard>>

\* The handler over a set of request bodies.
PostSimulationOf(payloads) ==
    /\ events < MaxEvents
    /\ \E body \in payloads, r \in RandomSamples :
          LET sim == ApplyPayload(simulation, body)
          IN  /\ simulation' = sim
              /\ alerts' = IF HighRisk(sim)
                           THEN <<SimulatedAlert(sim, now, r)>> \o alerts
                           ELSE alerts
              /\ last' = Event("postSimulation", body, 200, sim)
    /\ events' = events + 1
    /\ UNCHANGED <<settings, now, nextTick, running, dashboard>>

PostSimulation == PostSimulationOf(SimulationPayloads)

(***************************************************************************)
(* POST /api/alerts/:id/ack                                                *)
(***************************************************************************)
\* The :id parameters explored: the ids of the two newest and the two
\* oldest alerts, an id not in the list, a string that is no numeral.
AckParams ==
    {JNum(Whole(alerts[i].id)) :
        i \in {j \in 1..Len(alerts) : j <= 2 \/ j > Len(alerts) - 2}}
    \cup {JNum(Whole(0)), JStr("abc")}

\* A lookup that falls back on the newest alert.
FindOrNewest(as, id) ==
    LET hits == {i \in 1..Len(as) : Whole(as[i].id) = id}
    IN  IF hits = {} THEN 1 ELSE CHOOSE i \in hits : \A j \in hits : i <= j

\* alerts.find((a) => a.id === id): the index of the first match, 0 if none
Find(as, id) ==
    LET hits == {i \in 1..Len(as) : Whole(as[i].id) = id}
    IN  IF hits = {} THEN 0 ELSE CHOOSE i \in hits : \A j \in hits : i <= j

\* The acknowledgment lowering the severity too.
AcknowledgeAsResolved(as, i) ==
    [as EXCEPT ![i].acknowledged = TRUE, ![i].severity = "Low"]

\* The flag toggled instead of set.
AcknowledgeToggle(as, i) ==
    [as EXCEPT ![i].acknowledged = ~as[i].acknowledged]

\* alert.acknowledged = true on the alert found
Acknowledge(as, i) == [as EXCEPT ![i].acknowledged = TRUE]

PostAck ==
    /\ events < MaxEvents
    /\ \E param \in AckParams :
          LET i == Find(alerts, ToNumber(param))
          IN  IF i = 0
              THEN /\ last' = Event("ack", param, 404, "Alert not found")
                   /\ UNCHANGED alerts
              ELSE /\ alerts' = Acknowledge(alerts, i)
                   /\ last' = Event("ack", param, 200,
                                    Acknowledge(alerts, i)[i])
    /\ events' = events + 1
    /\ UNCHANGED <<simulation, settings, now, nextTick, running, dashboard>>

(***************************************************************************)
(* POST /api/settings                                                      *)
(***************************************************************************)
\* An object spread {...a, ...b}: the keys of both, b's values winning
Spread(a, b) ==
    [k \in DOMAIN a \cup DOMAIN b |-> IF k \in DOMAIN b THEN b[k] ELSE a[k]]

EmptyObject == [k \in {} |-> 0]

\* body[k] || {}
SectionOf(body, k) == IF k \in DOMAIN body THEN body[k] ELSE EmptyObject

SettingsPayloads == {
    EmptyObject,
    [preferences |-> [theme |-> "light"]],
    [preferences |-> [refreshInterval |-> 5], alerts |-> [notifySMS |-> TRUE]],
    [site |-> "north"] }

\* The merge at the top level only: a submitted section replaces the old one.
MergeSettingsWholeSections(old, body) == Spread(old, body)

\* The merge: the top level spread, then each of the four sections spread
MergeSettings(old, body) ==
    [Spread(old, body) EXCEPT
        !.profile = Spread(old.profile, SectionOf(body, "profile")),
        !.preferences = Spread(old.preferences, SectionOf(body, "preferences")),
        !.alerts = Spread(old.alerts, SectionOf(body, "alerts")),
        !.ai = Spread(old.ai, SectionOf(body, "ai"))]

PostSettings ==
    /\ events < MaxEvents
    /\ \E body \in SettingsPayloads :
          /\ settings' = MergeSettings(settings, body)
          /\ last' = Event("postSettings", body, 200,
                           MergeSettings(settings, body))
    /\ events' = events + 1
    /\ UNCHANGED <<simulation, alerts, now, nextTick, running, dashboard>>

(***************************************************************************)
(* The read handlers.  Each leaves its response in last; of a response     *)
(* only the fields computed from the state are kept (not lastUpdated,      *)
(* generatedAt, the accuracy history or the sensors' random readings).     *)
(***************************************************************************)
sensorDefs == <<
    [id |-> 1, code |-> "S001", type |-> "Inclinometer"],
    [id |-> 2, code |-> "S002", type |-> "Piezometer"],
    [id |-> 3, code |-> "S003", type |-> "Seismometer"],
    [id |-> 4, code |-> "S004", type |-> "Weather Station"],
    [id |-> 5, code |-> "S005", type |-> "Strain Gauge"] >>

\* alerts.filter((a) => !a.acknowledged).length
ActiveAlerts(as) == Cardinality({i \in 1..Len(as) : ~as[i].acknowledged})

\* as.slice(0, n)
Slice(as, n) == SubSeq(as, 1, IF Len(as) < n THEN Len(as) ELSE n)

\* Math.round(sensorDefs.length * 0.9)
SensorsOnline == RoundedUnits(Times(Whole(Len(sensorDefs)), Q(9, 10)), 0)

\* The thresholds taken inclusively.
WeatherImpactInclusive(sim) ==
    IF Ge(sim.rainfallMm, Whole(50)) THEN "High"
    ELSE IF Ge(sim.rainfallMm, Whole(10)) THEN "Moderate"
    ELSE "Low"

\* simulation.rainfallMm > 50 ? "High" : simulation.rainfallMm > 10 ? ...
WeatherImpact(sim) ==
    IF Gt(sim.rainfallMm, Whole(50)) THEN "High"
    ELSE IF Gt(sim.rainfallMm, Whole(10)) THEN "Moderate"
    ELSE "Low"

\* The sequences of Math.random() draws explored for a handler making n
\* draws: a constant run of each sample.
RandomStreams(n) == {[i \in 1..n |-> r] : r \in RandomSamples}

\* Math.round(x) of a number: the nearest integer, NaN for NaN
MathRound(x) == IF IsNaN(x) THEN NaN
                ELSE LET f == (2 * x[1] + x[2]) \div (2 * x[2]) IN Whole(f)

PredictionLabels == <<"Now", "1h", "3h", "6h", "12h", "24h">>

\* The drift scaled by the index itself, not by half of it.
PredictionValueFullIndex(sim, baseline, i, r) ==
    LET drift == Plus(Plus(Times(sim.rainfallMm, Q(1, 100)),
                           Times(sim.seismicMag, Q(2, 10))),
                      Plus(Times(r, Whole(2)), Whole(-1)))
        val == Plus(baseline, Times(drift, Whole(i + 1)))
    IN  Div(MathRound(Times(val, Whole(10))), Whole(10))

\* The value of step i (from 0) of the series, with r its draw
PredictionValue(sim, baseline, i, r) ==
    LET drift == Plus(Plus(Times(sim.rainfallMm, Q(1, 100)),
                           Times(sim.seismicMag, Q(2, 10))),
                      Plus(Times(r, Whole(2)), Whole(-1)))
        val == MathMax(Whole(0),
                       MathMin(Whole(10),
                               Plus(baseline, Times(drift, Q(i, 2)))))
    IN  Div(MathRound(Times(val, Whole(10))), Whole(10))

\* generatePredictionSeries() with rnd[k] the draw of the k-th step
generatePredictionSeries(sim, rnd) ==
    LET steps == PredictionLabels
    IN  [labels |-> steps,
         values |-> (LET series(baseline) ==
                            [k \in 1..Len(steps) |->
                                PredictionValue(sim, baseline, k - 1, rnd[k])]
                     IN  series(NumberOfString(computeRiskScore(sim))))]

\* One zone of GET /api/map with the draw r
MapZone(z, sim, r) ==
    LET rainfallFactor == MathMin(Whole(1), Div(sim.rainfallMm, Whole(200)))
        seismicFactor == MathMin(Whole(1), Div(sim.seismicMag, Whole(8)))
        score == MathMin(Whole(1),
                         Plus(Plus(Plus(Times(z.baseRisk, Q(6, 10)),
                                        Times(rainfallFactor, Q(25, 100))),
                                   Times(seismicFactor, Q(15, 100))),
                              Times(r, Q(5, 100))))
        severity == IF Gt(score, Q(7, 10)) THEN "High"
                    ELSE IF Gt(score, Q(4, 10)) THEN "Medium"
                    ELSE "Low"
    IN  [id |-> z.id, name |-> z.name, baseRisk |-> z.baseRisk,
         score |-> NumberOfString(ToFixed(score, 2)), severity |-> severity]

Read(op, body) ==
    /\ events < MaxEvents
    /\ last' = Event(op, NoBody, 200, body)
    /\ events' = events + 1
    /\ UNCHANGED <<simulation, alerts, settings, now, nextTick,
                   running, dashboard>>

GetSettings == Read("getSettings", settings)

\* The overview evaluating the alert rules as the tick does.
GetOverviewCreatingAlerts ==
    /\ \E r \in RandomSamples :
          alerts' = maybeCreateAlert(simulation, alerts, now, r)
    /\ last' = Event("getOverview", NoBody, 200,
                     [activeAlerts |-> ActiveAlerts(alerts'),
                      riskScore |-> computeRiskScore(simulation),
                      weatherImpact |-> WeatherImpact(simulation)])
    /\ events < MaxEvents
    /\ events' = events + 1
    /\ UNCHANGED <<simulation, settings, now, nextTick, running, dashboard>>

GetOverview ==
    Read("getOverview",
         [activeAlerts |-> ActiveAlerts(alerts),
          sensorsOnline |-> <<SensorsOnline, Len(sensorDefs)>>,
          riskScore |-> computeRiskScore(simulation),
          weatherImpact |-> WeatherImpact(simulation)])

GetSensors ==
    Read("getSensors",
         [i \in 1..Len(sensorDefs) |->
             [id |-> sensorDefs[i].id, code |-> sensorDefs[i].code,
              type |-> sensorDefs[i].type]])

GetAlerts == Read("getAlerts", Slice(alerts, 20))

GetPredictions ==
    \E rnd \in RandomStreams(Len(PredictionLabels)) :
        Read("getPredictions",
             [currentRiskScore |-> computeRiskScore(simulation),
              series |-> generatePredictionSeries(simulation, rnd)])

GetMap ==
    \E rnd \in RandomStreams(Len(zones)) :
        Read("getMap",
             [i \in 1..Len(zones) |-> MapZone(zones[i], simulation, rnd[i])])

GetSimulation == Read("getSimulation", simulation)

ExportReport ==
    Read("exportReport",
         [overview |-> [riskScore |-> computeRiskScore(simulation),
                        activeAlerts |-> ActiveAlerts(alerts),
                        sensorsOnline |-> SensorsOnline],
          topAlerts |-> Slice(alerts, 5),
          topZones |-> [i \in 1..Len(zones) |->
                           [id |-> zones[i].id, name |-> zones[i].name]]])

ReadOps == {"getSettings", "getOverview", "getSensors", "getAlerts",
            "getPredictions", "getMap", "getSimulation", "exportReport"}

(***************************************************************************)
(* The tick and the parameter update statement by statement.  Both are     *)
(* synchronous functions: the event loop runs the one it has taken to its  *)
(* return before it takes another callback.                                *)
(***************************************************************************)
\* A callback taken by the event loop, at its first statement.
Started(op, req) ==
    [op |-> op, pc |-> 1, req |-> req, simulation |-> simulation,
     alerts |-> alerts]

\* An event loop that takes a callback whatever is running.
LoopFreeAlways == TRUE

\* The event loop takes its next callback when the running one has returned.
LoopFree == running = Idle

AtStatement(op, pc) == running.op = op /\ running.pc = pc

NextStatement == [running EXCEPT !.pc = running.pc + 1]

\* The timer fires and its callback is taken.
StartTick ==
    /\ now >= nextTick
    /\ events < MaxEvents
    /\ running' = Started("tick", NoBody)
    /\ UNCHANGED <<simulation, alerts, settings, now, nextTick,
                   events, last, dashboard>>

\* if (simulation.rainfallMm > 0) simulation.rainfallMm = ...
TickRain ==
    /\ AtStatement("tick", 1)
    /\ \E r \in RandomSamples :
          simulation' =
              [simulation EXCEPT
                  !.rainfallMm =
                      IF Gt(simulation.rainfallMm, Whole(0))
                      THEN Drift(simulation.rainfallMm, r, Whole(4), RainMax)
                      ELSE simulation.rainfallMm]
    /\ running' = NextStatement
    /\ UNCHANGED <<alerts, settings, now, nextTick, events, last, dashboard>>

\* simulation.seismicMag = ...
TickSeismic ==
    /\ AtStatement("tick", 2)
    /\ \E r \in RandomSamples :
          simulation' =
              [simulation EXCEPT
                  !.seismicMag = Drift(simulation.seismicMag, r, Q(2, 10),
                                       SeismicMax)]
    /\ running' = NextStatement
    /\ UNCHANGED <<alerts, settings, now, nextTick, events, last, dashboard>>

\* maybeCreateAlert(): rule 1
TickRule1 ==
    /\ AtStatement("tick", 3)
    /\ LET currentRisk == NumberOfString(computeRiskScore(simulation))
       IN  alerts' = IF Rule1Applies(currentRisk, alerts)
                     THEN <<ExceededAlert(currentRisk, now)>> \o alerts
                     ELSE alerts
    /\ running' = NextStatement
    /\ UNCHANGED <<simulation, settings, now, nextTick, events, last,
                   dashboard>>

\* maybeCreateAlert(): rule 2
TickRule2 ==
    /\ AtStatement("tick", 4)
    /\ \E r \in RandomSamples :
          alerts' = IF Rule2Applies(r, simulation)
                    THEN <<MalfunctionAlert(now)>> \o alerts
                    ELSE alerts
    /\ running' = NextStatement
    /\ UNCHANGED <<simulation, settings, now, nextTick, events, last,
                   dashboard>>

\* maybeCreateAlert(): the truncation; the callback returns
TickSlice ==
    /\ AtStatement("tick", 5)
    /\ alerts' = Truncate(alerts)
    /\ nextTick' = now + TickInterval
    /\ last' = Event("tick", NoBody, 0, NoBody)
    /\ events' = events + 1
    /\ running' = Idle
    /\ UNCHANGED <<simulation, settings, now, dashboard>>

\* A parameter update arrives and its handler is taken.
StartPostSimulation ==
    /\ events < MaxEvents
    /\ \E body \in SimulationPayloads :
          running' = Started("postSimulation", body)
    /\ UNCHANGED <<simulation, alerts, settings, now, nextTick,
                   events, last, dashboard>>

\* The keys in the order of the forEach
FieldOrder == <<"rainfallMm", "seismicMag", "blastingLevel">>

FieldMax(k) == IF k = "rainfallMm" THEN RainMax
               ELSE IF k = "seismicMag" THEN SeismicMax
               ELSE BlastMax

\* One turn of the forEach, on the key at pc
PostSimulationField ==
    /\ running.op = "postSimulation"
    /\ running.pc \in 1..Len(FieldOrder)
    /\ LET k == FieldOrder[running.pc]
       IN  simulation' =
               [simulation EXCEPT
                   ![k] = ApplyField(simulation[k], running.req[k],
                                     FieldMax(k))]
    /\ running' = NextStatement
    /\ UNCHANGED <<alerts, settings, now, nextTick, events, last, dashboard>>

\* if (simulation.rainfallMm > 150 || simulation.seismicMag > 6) unshift
PostSimulationHighRisk ==
    /\ AtStatement("postSimulation", Len(FieldOrder) + 1)
    /\ \E r \in RandomSamples :
          alerts' = IF HighRisk(simulation)
                    THEN <<SimulatedAlert(simulation, now, r)>> \o alerts
                    ELSE alerts
    /\ running' = NextStatement
    /\ UNCHANGED <<simulation, settings, now, nextTick, events, last,
                   dashboard>>

\* res.json(...); the handler returns
PostSimulationRespond ==
    /\ AtStatement("postSimulation", Len(FieldOrder) + 2)
    /\ last' = Event("postSimulation", running.req, 200, simulation)
    /\ events' = events + 1
    /\ running' = Idle
    /\ UNCHANGED <<simulation, alerts, settings, now, nextTick, dashboard>>

(***************************************************************************)
(* The Dashboard page.  One instance of the component is followed from its *)
(* mount to after its unmount.  A request it sends is in flight until the  *)
(* action that resolves it: there the server handles the request and the   *)
(* code after the await runs with the response.  A settings value that is  *)
(* still null (loaded FALSE, panel not ready, save none) holds the         *)
(* defaults as a placeholder.                                              *)
(***************************************************************************)
server == <<simulation, alerts, now, nextTick, running>>

\* setInterval(callback, ms): a new active timer with a fresh id
SetInterval(d, ms) ==
    [d EXCEPT !.timers = @ \cup {[id |-> d.nextId, ms |-> ms]},
              !.nextId = @ + 1]

\* clearInterval(id): no effect when id names no active timer
ClearInterval(d, id) == [d EXCEPT !.timers = {t \in @ : t.id # id}]

restartFetchInterval(d) ==
    LET cleared == ClearInterval(d, d.intervalRef)
    IN  [SetInterval(cleared, cleared.refreshRef)
            EXCEPT !.intervalRef = cleared.nextId]

\* The class applyTheme leaves on the document element
applyTheme(theme) ==
    IF theme = "neon" THEN "theme-neon"
    ELSE IF theme = "light" THEN "theme-light"
    ELSE "theme-dark"

\* Math.max(2, Number(s.preferences.refreshInterval || 10)) * 1000
RefreshMs(s) ==
    LET v == s.preferences.refreshInterval
        sec == IF v = 0 THEN DefaultRefreshSec ELSE v
    IN  (IF sec > MinRefreshSec THEN sec ELSE MinRefreshSec) * 1000

\* setSettings of the Dashboard: React drops the update of a component
\* that is unmounted.
SetDashboardSettings(d, s) ==
    IF d.phase = "mounted"
    THEN [d EXCEPT !.loaded = TRUE, !.settings = s]
    ELSE d

onApplySettings(d, newSettings) ==
    restartFetchInterval(
        [SetDashboardSettings(d, newSettings)
            EXCEPT !.theme = applyTheme(newSettings.preferences.theme),
                   !.refreshRef = RefreshMs(newSettings)])

\* The mount effect: fetchSettings() and fetchAll() are called and the
\* first interval is started.
Mount ==
    /\ dashboard.phase = "absent"
    /\ dashboard' =
          [SetInterval([dashboard EXCEPT !.phase = "mounted",
                                         !.fetchSettings = "sent"],
                       dashboard.refreshRef)
              EXCEPT !.intervalRef = dashboard.nextId]
    /\ UNCHANGED <<server, settings, events, last>>

\* The cleanup of the mount effect; the panel is unmounted with its parent.
Unmount ==
    /\ dashboard.phase = "mounted"
    /\ dashboard' =
          [ClearInterval(dashboard, dashboard.intervalRef)
              EXCEPT !.phase = "unmounted",
                     !.panel = "closed",
                     !.save = IF @ = "sent" THEN "orphaned" ELSE @]
    /\ UNCHANGED <<server, settings, events, last>>

\* GET /api/settings is answered and fetchSettings goes on after its await.
FetchSettingsResolves ==
    /\ dashboard.fetchSettings = "sent"
    /\ events < MaxEvents
    /\ events' = events + 1
    /\ last' = Event("getSettings", NoBody, 200, settings)
    /\ dashboard' =
          restartFetchInterval(
              [SetDashboardSettings(dashboard, settings)
                  EXCEPT !.fetchSettings = "done",
                         !.theme = applyTheme(settings.preferences.theme),
                         !.refreshRef = RefreshMs(settings)])
    /\ UNCHANGED <<server, settings>>

\* The request fails: the catch block only logs.
FetchSettingsFails ==
    /\ dashboard.fetchSettings = "sent"
    /\ dashboard' = [dashboard EXCEPT !.fetchSettings = "failed"]
    /\ UNCHANGED <<server, settings, events, last>>

\* A callback of an active interval timer runs: fetchAll().
IntervalFires ==
    /\ \E t \in dashboard.timers :
          /\ dashboard.fired # t.id
          /\ dashboard' = [dashboard EXCEPT !.fired = t.id]
    /\ UNCHANGED <<server, settings, events, last>>

\* The Settings button: setShowSettings(prev => !prev).  A panel that is
\* shown mounts and sends its GET /api/settings.
ToggleSettings ==
    /\ dashboard.phase = "mounted"
    /\ dashboard' =
          IF dashboard.panel = "closed"
          THEN [dashboard EXCEPT !.panel = "loading"]
          ELSE [dashboard EXCEPT
                   !.panel = "closed",
                   !.save = IF @ = "sent" THEN "orphaned" ELSE @]
    /\ UNCHANGED <<server, settings, events, last>>

\* The panel's GET /api/settings is answered while the panel is mounted
\* (the answer to a panel that has been closed is dropped by its mounted
\* flag).
PanelLoaded ==
    /\ dashboard.panel = "loading"
    /\ events < MaxEvents
    /\ events' = events + 1
    /\ last' = Event("getSettings", NoBody, 200, settings)
    /\ dashboard' = [dashboard EXCEPT !.panel = "ready",
                                      !.panelSettings = settings]
    /\ UNCHANGED <<server, settings>>

\* The settings the panel falls back to when its request fails
FallbackSettings == [
    profile |-> [name |-> "Mine Admin", email |-> "admin@minescope.ai",
                 role |-> "Admin"],
    preferences |-> [refreshInterval |-> 10, units |-> "metric",
                     language |-> "en", theme |-> "dark"],
    alerts |-> [vibrationThreshold |-> 3, crackThreshold |-> 2,
                tempThreshold |-> 35, notifyEmail |-> TRUE,
                notifySMS |-> FALSE, notifyPush |-> TRUE],
    ai |-> [sensitivity |-> "balanced", explainable |-> TRUE] ]

PanelLoadFails ==
    /\ dashboard.panel = "loading"
    /\ dashboard' = [dashboard EXCEPT !.panel = "ready",
                                      !.panelSettings = FallbackSettings]
    /\ UNCHANGED <<server, settings, events, last>>

\* The values typed into the Refresh Interval input
RefreshChoices == {0, 1, 5}

\* updateField(["preferences", "refreshInterval"], Number(value))
UpdateField(s, section, key, value) ==
    [s EXCEPT ![section] = [@ EXCEPT ![key] = value]]

EditRefreshInterval ==
    /\ dashboard.panel = "ready"
    /\ \E sec \in RefreshChoices :
          /\ dashboard.panelSettings.preferences.refreshInterval # sec
          /\ dashboard' =
                [dashboard EXCEPT
                    !.panelSettings =
                        UpdateField(@, "preferences", "refreshInterval",
                                    sec)]
    /\ UNCHANGED <<server, settings, events, last>>

\* The Save button (disabled while saving): the panel posts its settings.
\* One save is followed at a time.
Save ==
    /\ dashboard.panel = "ready"
    /\ dashboard.save = "none"
    /\ dashboard' = [dashboard EXCEPT !.save = "sent",
                                      !.saveBody = dashboard.panelSettings]
    /\ UNCHANGED <<server, settings, events, last>>

\* POST /api/settings is answered and save goes on after its await:
\* setSettings(resp.data.settings) of the panel (dropped when that panel is
\* unmounted), then onApplySettings with the settings that were posted.
SaveResolves ==
    /\ dashboard.save \in {"sent", "orphaned"}
    /\ events < MaxEvents
    /\ events' = events + 1
    /\ LET merged == MergeSettings(settings, dashboard.saveBody)
       IN  /\ settings' = merged
           /\ last' = Event("postSettings", dashboard.saveBody, 200, merged)
           /\ dashboard' =
                 onApplySettings(
                     [dashboard EXCEPT
                         !.save = "none",
                         !.panelSettings =
                             IF dashboard.save = "sent" THEN merged ELSE @],
                     dashboard.saveBody)
    /\ UNCHANGED server

\* The request fails: the catch block sets the panel's error message.
SaveFails ==
    /\ dashboard.save \in {"sent", "orphaned"}
    /\ dashboard' = [dashboard EXCEPT !.save = "none"]
    /\ UNCHANGED <<server, settings, events, last>>

\* The page and another client that posts settings.
NextDashboard ==
    \/ Mount
    \/ Unmount
    \/ FetchSettingsResolves
    \/ FetchSettingsFails
    \/ IntervalFires
    \/ ToggleSettings
    \/ PanelLoaded
    \/ PanelLoadFails
    \/ EditRefreshInterval
    \/ Save
    \/ SaveResolves
    \/ SaveFails
    \/ PostSettings

SpecDashboard == Init /\ [][NextDashboard]_vars

(***************************************************************************)
(* Specifications                                                          *)
(***************************************************************************)
\* The handlers that write the state, and those that only read it.
Writes ==
    \/ PostAck
    \/ PostSettings

Reads ==
    \/ GetSettings
    \/ GetOverview
    \/ GetSensors
    \/ GetAlerts
    \/ GetPredictions
    \/ GetMap
    \/ GetSimulation
    \/ ExportReport

\* Everything the server does.
Next ==
    \/ AdvanceClock
    \/ Tick
    \/ PostSimulation
    \/ Writes
    \/ Reads

Spec == Init /\ [][Next]_vars

\* The tick and the handlers that write the state.
NextEngine ==
    \/ AdvanceClock
    \/ Tick
    \/ PostSimulation
    \/ Writes

SpecEngine == Init /\ [][NextEngine]_vars

\* The same, every parameter update carrying numbers only.
NextNumeric ==
    \/ AdvanceClock
    \/ Tick
    \/ PostSimulationOf(NumericPayloads)
    \/ Writes

SpecNumeric == Init /\ [][NextNumeric]_vars

\* The engine started from a full list: the state after AlertCap - 2
\* parameter updates {rainfallMm: 151} handled in the process's first
\* millisecond, the k-th of them drawing the id offset k - 1.
FullList ==
    LET n == AlertCap - Len(InitialAlerts(StartTime))
        sim == [rainfallMm |-> Whole(151), seismicMag |-> Whole(0),
                blastingLevel |-> Whole(0)]
    IN  [i \in 1..n |->
            [SimulatedAlert(sim, StartTime, Q(0, 1)) EXCEPT
                !.id = StartTime + (n - i)]]
        \o InitialAlerts(StartTime)

InitFull ==
    /\ simulation = [rainfallMm |-> Whole(151), seismicMag |-> Whole(0),
                     blastingLevel |-> Whole(0)]
    /\ alerts = FullList
    /\ settings = InitialSettings
    /\ now = StartTime
    /\ nextTick = StartTime + TickInterval
    /\ events = 0
    /\ last = Event("postSimulation",
                    Payload(JNum(Whole(151)), Undefined, Undefined), 200,
                    simulation)
    /\ running = Idle
    /\ dashboard = NotRendered

SpecFull == InitFull /\ [][NextEngine]_vars

\* The tick and the parameter update statement by statement, among the
\* other handlers and time.
NextSteps ==
    \/ /\ LoopFree
       /\ \/ AdvanceClock
          \/ StartTick
          \/ StartPostSimulation
          \/ PostAck
          \/ PostSettings
          \/ GetSimulation
    \/ TickRain
    \/ TickSeismic
    \/ TickRule1
    \/ TickRule2
    \/ TickSlice
    \/ PostSimulationField
    \/ PostSimulationHighRisk
    \/ PostSimulationRespond

SpecSteps == Init /\ [][NextSteps]_vars

\* The process with its simulation state anywhere on a grid of the clamped
\* ranges, as parameter updates can leave it: the floors, the ceilings, the
\* values at which the influences reach 1, and values between; and a
\* rainfall that is NaN.
RainSamples == {Whole(0), Whole(100), Whole(200), Whole(300), NaN}
SeismicSamples == {Whole(0), Whole(2), Whole(8), Whole(10)}
BlastSamples == {Whole(0), Whole(40), Whole(100)}

InitSampled ==
    /\ simulation \in
           {[rainfallMm |-> r, seismicMag |-> s, blastingLevel |-> b] :
               r \in RainSamples, s \in SeismicSamples, b \in BlastSamples}
    /\ alerts = InitialAlerts(StartTime)
    /\ settings = InitialSettings
    /\ now = StartTime
    /\ nextTick = StartTime + TickInterval
    /\ events = 0
    /\ last = Event("start", NoBody, 0, NoBody)
    /\ running = Idle
    /\ dashboard = NotRendered

\* The tick, which moves the state off the grid, and the read of the risk
\* score.
NextSampled ==
    \/ AdvanceClock
    \/ Tick
    \/ GetOverview

SpecSampled == InitSampled /\ [][NextSampled]_vars

\* Parameter updates that set the rainfall at, beside and between the
\* thresholds of the weather impact, and the overview.  Each sets seismicMag
\* to 2, which keeps the risk scores off the ties.
WeatherPayloads ==
    {Payload(JNum(Whole(r)), JNum(Whole(2)), b) :
        r \in {5, 10, 11, 20, 50, 51, 80},
        b \in {Undefined, JNum(Whole(40))}}

NextWeather ==
    \/ AdvanceClock
    \/ Tick
    \/ PostSimulationOf(WeatherPayloads)
    \/ GetOverview

SpecWeather == Init /\ [][NextWeather]_vars

\* Parameter updates that put the zones' scores beside and on the severity
\* thresholds, and the map.  The values keep the scores off the ties.
MapPayloads ==
    {Payload(JNum(Whole(r)), JNum(Whole(s)), Undefined) :
        r \in {151, 173, 200, 300}, s \in {0, 6, 10}}

NextMap ==
    \/ AdvanceClock
    \/ PostSimulationOf(MapPayloads)
    \/ GetMap

SpecMap == Init /\ [][NextMap]_vars

\* The process with its simulation state on a grid of the clamped ranges
\* (off the ties of the series' roundings), and the predictions.
InitPredictions ==
    /\ simulation \in
           {[rainfallMm |-> Whole(r), seismicMag |-> Whole(s),
             blastingLevel |-> Whole(b)] :
               r \in {0, 100, 201, 300}, s \in {0, 2, 10}, b \in {0, 40, 100}}
    /\ alerts = InitialAlerts(StartTime)
    /\ settings = InitialSettings
    /\ now = StartTime
    /\ nextTick = StartTime + TickInterval
    /\ events = 0
    /\ last = Event("start", NoBody, 0, NoBody)
    /\ running = Idle
    /\ dashboard = NotRendered

NextPredictions ==
    \/ AdvanceClock
    \/ GetPredictions

SpecPredictions == InitPredictions /\ [][NextPredictions]_vars

(***************************************************************************)
(* Properties                                                              *)
(***************************************************************************)
Fields == {"rainfallMm", "seismicMag", "blastingLevel"}

\* The steps of each kind, told by the event they leave in last.
IsUpdateStep == last'.op = "postSimulation" /\ events' = events + 1
IsTickStep == last'.op = "tick" /\ events' = events + 1
IsAckStep == last'.op = "ack" /\ events' = events + 1
IsReadStep == last'.op \in ReadOps /\ events' = events + 1

\* C1: in every reachable state the alert list holds at most 50 entries.
\* The parameter update prepends without truncating, so it fails on a full
\* list (SpecFull).
AlertListWithinCap == Len(alerts) <= 50

\* C2: after any sequence of ticks and of parameter updates carrying numbers,
\* rainfallMm is in [0,300], seismicMag in [0,10], blastingLevel in [0,100]
\* (SpecNumeric).
InRange(x, max) == ~IsNaN(x) /\ Ge(x, Whole(0)) /\ Ge(Whole(max), x)

SimulationWithinClamps ==
    /\ InRange(simulation.rainfallMm, 300)
    /\ InRange(simulation.seismicMag, 10)
    /\ InRange(simulation.blastingLevel, 100)

\* C2 witness: a tick has drifted values that an out-of-range update had
\* clamped to their ceilings, and they are at the ceilings still.
ClampedAtCeilingAfterTick ==
    /\ last.op = "tick"
    /\ simulation.rainfallMm = Whole(300)
    /\ simulation.seismicMag = Whole(10)
    /\ simulation.blastingLevel = Whole(100)

\* C3: a parameter update with a field that is no number never stores a
\* non-number.  The code stores NaN.
StoredSimulationNumeric == \A k \in Fields : ~IsNaN(simulation[k])

\* C4: a parameter update prepends exactly one unacknowledged High alert of
\* zone "Simulated" if and only if afterwards rainfallMm > 150 or
\* seismicMag > 6, strictly; the earlier alerts stay behind it in order, and
\* otherwise the list is unchanged.
UpdateAlertsExactly ==
    [][IsUpdateStep =>
          IF \/ Gt(simulation'.rainfallMm, Whole(150))
             \/ Gt(simulation'.seismicMag, Whole(6))
          THEN /\ Len(alerts') = Len(alerts) + 1
               /\ Tail(alerts') = alerts
               /\ Head(alerts').zone = "Simulated"
               /\ Head(alerts').severity = "High"
               /\ ~Head(alerts').acknowledged
          ELSE alerts' = alerts]_vars

\* C4 witness: an update that carried no field at all has prepended a
\* "Simulated" alert, the state being above a threshold already.
EmptyUpdatePrependedAlert ==
    /\ last.op = "postSimulation"
    /\ last.req = Payload(Undefined, Undefined, Undefined)
    /\ Len(alerts) = 4
    /\ alerts[1].zone = "Simulated"
    /\ alerts[2].zone = "Simulated"

\* C5: a tick never adds a "probability exceeded" alert while an
\* unacknowledged one is in the list, and at most one unacknowledged
\* "probability exceeded" alert exists in every reachable state.
Exceeded(as) == {i \in 1..Len(as) : IncludesProbabilityExceeded(as[i].msg)}
UnackedExceeded(as) == {i \in Exceeded(as) : ~as[i].acknowledged}

Rule1Dedup ==
    /\ [](Cardinality(UnackedExceeded(alerts)) <= 1)
    /\ [][IsTickStep /\ UnackedExceeded(alerts) # {} =>
             Cardinality(Exceeded(alerts')) <= Cardinality(Exceeded(alerts))]_vars

\* C5 witness: a tick has run while the unacknowledged "probability exceeded"
\* alert was in the list.
TickWithUnackedExceeded ==
    /\ last.op = "tick"
    /\ UnackedExceeded(alerts) # {}

\* C6: once every "probability exceeded" alert in the list is acknowledged,
\* a tick at which the risk score is >= 7.5 prepends a new unacknowledged
\* High alert for "Sector A - West Wall" (behind the rule-2 alert, if that
\* is created too).
IsNewExceeded(a) ==
    /\ IncludesProbabilityExceeded(a.msg)
    /\ a.zone = "Sector A - West Wall"
    /\ a.severity = "High"
    /\ ~a.acknowledged

RiskOf(sim) == NumberOfString(computeRiskScore(sim))

Rule1Rearm ==
    [][/\ IsTickStep
       /\ UnackedExceeded(alerts) = {}
       /\ Ge(RiskOf(simulation'), Q(75, 10))
       => /\ Len(alerts') > Len(alerts)
          /\ \/ IsNewExceeded(alerts'[1])
             \/ alerts'[1].zone = "Sensor Network" /\ IsNewExceeded(alerts'[2])
      ]_vars

\* C6: the case of Rule1Rearm, a tick that leaves the risk score at 7.5 or
\* more.  No reachable state is one: the score never exceeds 6.9.
QualifyingTick == last.op = "tick" /\ Ge(RiskOf(simulation), Q(75, 10))

\* C7: every read leaves the simulation state, the alert list and the
\* settings unchanged.
ReadsChangeNothing ==
    [][IsReadStep => UNCHANGED <<simulation, alerts, settings>>]_vars

\* C7 witness: the overview has been read, at a time the tick is due, in a
\* state the parameter updates have added alerts to.
OverviewReadAfterWrites ==
    /\ last.op = "getOverview"
    /\ last.body.activeAlerts = Len(alerts)
    /\ Len(alerts) > 2
    /\ now >= nextTick

\* C8: no two alerts in the list have the same id.  Two parameter updates
\* in one millisecond that draw the same offset give the same id.
AlertIdsUnique ==
    \A i, j \in 1..Len(alerts) : i # j => alerts[i].id # alerts[j].id

\* The alerts carrying the id a request asks for, and the first of them
Carriers(as, id) == {i \in 1..Len(as) : Whole(as[i].id) = id}
FirstCarrier(as, id) ==
    CHOOSE i \in Carriers(as, id) : \A j \in Carriers(as, id) : i <= j

\* C9: acknowledging an id that is in the list succeeds and leaves the alert
\* it names (the newest carrying the id) acknowledged, nothing else
\* changed; on an alert acknowledged already it changes nothing at all.
AckIdempotent ==
    [][IsAckStep /\ Carriers(alerts, ToNumber(last'.req)) # {} =>
          LET i == FirstCarrier(alerts, ToNumber(last'.req))
          IN  /\ last'.status = 200
              /\ Len(alerts') = Len(alerts)
              /\ alerts'[i].acknowledged
              /\ \A j \in 1..Len(alerts) :
                    /\ j # i => alerts'[j] = alerts[j]
                    /\ \A f \in DOMAIN alerts[j] \ {"acknowledged"} :
                          alerts'[j][f] = alerts[j][f]
              /\ alerts[i].acknowledged => alerts' = alerts
              /\ UNCHANGED <<simulation, settings>>]_vars

\* C9 witness: an acknowledgment has succeeded as the second step, with
\* one alert acknowledged and nothing else changed since the start, as it
\* is after the same id was acknowledged twice.
AcknowledgedTwice ==
    /\ last.op = "ack"
    /\ last.status = 200
    /\ events = 2
    /\ Len(alerts) = 2
    /\ ActiveAlerts(alerts) = 1
    /\ settings = InitialSettings

\* C10: acknowledging an id that no alert carries fails with NotFound (404)
\* and leaves the alert list, the simulation state and the settings
\* unchanged.
AckUnknownNotFound ==
    [][IsAckStep /\ Carriers(alerts, ToNumber(last'.req)) = {} =>
          /\ last'.status = 404
          /\ UNCHANGED <<simulation, alerts, settings>>]_vars

\* C10 witness: an acknowledgment of an id not in the list has been
\* answered NotFound.
UnknownIdRefused ==
    /\ last.op = "ack"
    /\ last.status = 404
    /\ last.req = JNum(Whole(0))


\* The states a tick run in one piece at time t can leave, as
\* <<simulation, alerts>>, from the simulation state sim and the list as.
TickOutcomes(sim, as, t) ==
    {<<[sim EXCEPT
           !.rainfallMm = IF Gt(sim.rainfallMm, Whole(0))
                          THEN Drift(sim.rainfallMm, r[1], Whole(4), RainMax)
                          ELSE sim.rainfallMm,
           !.seismicMag = Drift(sim.seismicMag, r[2], Q(2, 10), SeismicMax)],
       maybeCreateAlert(
           [sim EXCEPT
               !.rainfallMm = IF Gt(sim.rainfallMm, Whole(0))
                              THEN Drift(sim.rainfallMm, r[1], Whole(4),
                                         RainMax)
                              ELSE sim.rainfallMm,
               !.seismicMag = Drift(sim.seismicMag, r[2], Q(2, 10),
                                    SeismicMax)],
           as, t, r[3])>> :
        r \in RandomSamples \X RandomSamples \X RandomSamples}

\* The same for a parameter update carrying body.
UpdateOutcomes(sim, as, t, body) ==
    {<<ApplyPayload(sim, body),
       IF HighRisk(ApplyPayload(sim, body))
       THEN <<SimulatedAlert(ApplyPayload(sim, body), t, r)>> \o as
       ELSE as>> : r \in RandomSamples}

\* C11: the tick, the parameter updates, the acknowledgments and the
\* settings updates execute atomically.  While a callback is between two of
\* its statements every step is its own next statement, so no other handler
\* runs on (or observes) its half-applied changes; and when it returns, the
\* state is one that running it in one piece from the state it started in
\* can leave (SpecSteps).
HandlersAtomic ==
    /\ [][running.op # "idle" =>
             /\ running' # running
             /\ running'.op \in {running.op, "idle"}
             /\ running'.op = running.op =>
                   running' = [running EXCEPT !.pc = running.pc + 1]
             /\ UNCHANGED <<settings, now>>]_vars
    /\ [][running.op = "tick" /\ running'.op = "idle" =>
             <<simulation', alerts'>> \in
                 TickOutcomes(running.simulation, running.alerts, now)]_vars
    /\ [][running.op = "postSimulation" /\ running'.op = "idle" =>
             <<simulation', alerts'>> \in
                 UpdateOutcomes(running.simulation, running.alerts, now,
                                running.req)]_vars

\* C11 witness: a parameter update has assigned its fields and not yet
\* tested them, at a time the tick is due.
UpdateHalfAppliedTickDue ==
    /\ running.op = "postSimulation"
    /\ running.pc = Len(FieldOrder) + 1
    /\ simulation # running.simulation
    /\ now >= nextTick


\* C12: a parameter update changes only the simulation fields present in
\* its payload: every absent field keeps its value, and the settings are
\* unchanged.
UpdateChangesPresentFieldsOnly ==
    [][IsUpdateStep =>
          /\ \A k \in Fields :
                last'.req[k] = Undefined => simulation'[k] = simulation[k]
          /\ settings' = settings]_vars

\* C12 witness: an update without rainfallMm has set the other two fields
\* and left the rainfall an earlier update had set.
RainfallKeptByPartialUpdate ==
    /\ last.op = "postSimulation"
    /\ last.req = Payload(Undefined, JNum(Whole(7)), JNum(Whole(50)))
    /\ simulation = [rainfallMm |-> Whole(151), seismicMag |-> Whole(7),
                     blastingLevel |-> Whole(50)]

\* C13: if rainfallMm is 0 before a tick it is 0 after it; and once it is
\* 0, no step but a parameter update changes it, so it stays 0 through any
\* number of ticks.
RainfallStaysZero ==
    /\ [][IsTickStep /\ simulation.rainfallMm = Whole(0) =>
             simulation'.rainfallMm = Whole(0)]_vars
    /\ [][simulation.rainfallMm = Whole(0) /\ ~IsUpdateStep =>
             simulation'.rainfallMm = Whole(0)]_vars

\* C13 witness: a tick has drifted the seismic magnitude from 0 and left
\* the rainfall at 0.
TickDriftedSeismicOnly ==
    /\ last.op = "tick"
    /\ simulation.rainfallMm = Whole(0)
    /\ Gt(simulation.seismicMag, Whole(0))


Sections == {"profile", "preferences", "alerts", "ai"}

\* C14: a settings update replaces, in each of the sections profile,
\* preferences, alerts and ai, only the keys present in the submitted
\* section; every other key of the section, and every section absent from
\* the update, keeps its value.
SettingsMergePerSection ==
    [][last'.op = "postSettings" /\ events' = events + 1 =>
          \A sec \in Sections :
              LET sent == IF sec \in DOMAIN last'.req
                          THEN last'.req[sec] ELSE EmptyObject
              IN  /\ DOMAIN settings'[sec] =
                         DOMAIN settings[sec] \cup DOMAIN sent
                  /\ \A k \in DOMAIN settings'[sec] :
                        settings'[sec][k] =
                            IF k \in DOMAIN sent THEN sent[k]
                            ELSE settings[sec][k]]_vars

\* C14 witness: {preferences: {theme: "light"}} has been posted and the
\* settings differ from the initial ones in preferences.theme alone.
ThemeAloneChanged ==
    /\ last.op = "postSettings"
    /\ last.req = [preferences |-> [theme |-> "light"]]
    /\ settings = [InitialSettings EXCEPT !.preferences.theme = "light"]
    /\ settings.preferences.refreshInterval = 10


\* C15: for every simulation state within the clamps computeRiskScore() is
\* in [0,10], and raising any one of rainfallMm, seismicMag, blastingLevel
\* with the other two fixed never lowers it (SpecSampled).
WithinClamps(sim) ==
    /\ InRange(sim.rainfallMm, 300)
    /\ InRange(sim.seismicMag, 10)
    /\ InRange(sim.blastingLevel, 100)

RaisedValues(k) == IF k = "rainfallMm" THEN RainSamples \ {NaN}
                   ELSE IF k = "seismicMag" THEN SeismicSamples
                   ELSE BlastSamples

RiskInRangeAndMonotone ==
    WithinClamps(simulation) =>
        LET risk == RiskOf(simulation)
        IN  /\ Ge(risk, Whole(0))
            /\ Ge(Whole(10), risk)
            /\ \A k \in Fields :
                  \A v \in RaisedValues(k) :
                      Ge(v, simulation[k]) =>
                          Ge(RiskOf([simulation EXCEPT ![k] = v]), risk)

\* C15 witness: the overview has reported the score of the state with
\* every field at its ceiling, 6.9.
CeilingScoreRead ==
    /\ last.op = "getOverview"
    /\ simulation = [rainfallMm |-> Whole(300), seismicMag |-> Whole(10),
                     blastingLevel |-> Whole(100)]
    /\ NumberOfString(last.body.riskScore) = Q(69, 10)

\* C17: for every simulation state computeRiskScore() equals
\* 10 * (avgBaseRisk*0.6 + min(1, rainfallMm/200)*0.2
\*       + min(1, seismicMag/8)*0.15 + min(1, blastingLevel/100)*0.05)
\* rounded to one decimal, avgBaseRisk being the mean baseRisk of the three
\* zones; in the all-zero state that is avgBaseRisk*6 rounded, 2.9
\* (SpecSampled).
AvgBaseRisk ==
    Div(Plus(Plus(zones[1].baseRisk, zones[2].baseRisk), zones[3].baseRisk),
        Whole(3))

RoundedToOneDecimal(x) ==
    IF IsNaN(x) THEN NaN ELSE Q(RoundedUnits(x, 1), 10)

RiskFormula(sim) ==
    Times(Whole(10),
          Plus(Times(AvgBaseRisk, Q(6, 10)),
               Plus(Times(MathMin(Whole(1), Div(sim.rainfallMm, Whole(200))),
                          Q(2, 10)),
                    Plus(Times(MathMin(Whole(1),
                                       Div(sim.seismicMag, Whole(8))),
                               Q(15, 100)),
                         Times(MathMin(Whole(1),
                                       Div(sim.blastingLevel, Whole(100))),
                               Q(5, 100))))))

AllZero == [rainfallMm |-> Whole(0), seismicMag |-> Whole(0),
            blastingLevel |-> Whole(0)]

RiskMatchesFormula ==
    /\ RiskOf(simulation) = RoundedToOneDecimal(RiskFormula(simulation))
    /\ simulation = AllZero =>
          /\ RiskOf(simulation) =
                 RoundedToOneDecimal(Times(AvgBaseRisk, Whole(6)))
          /\ RiskOf(simulation) = Q(29, 10)
    /\ last.op = "getOverview" =>
          NumberOfString(last.body.riskScore) =
              RoundedToOneDecimal(RiskFormula(simulation))

\* C17 witness: the overview has reported 2.9 in the all-zero state.
InitialScoreRead ==
    /\ last.op = "getOverview"
    /\ simulation = AllZero
    /\ last.body.riskScore = ToFixed(Q(29, 10), 1)


\* C16: a parameter update carrying a number v for a field stores v clamped
\* to the field's range, min(max, max(0, v)) with max 300, 10 and 100: 500
\* stores 300 and -10 stores 0 for rainfallMm, and a v in the range is
\* stored as it is.
StoredValueIsClamped ==
    [][IsUpdateStep =>
          \A k \in Fields :
              last'.req[k][1] = "number" =>
                  LET v == last'.req[k][2]
                  IN  /\ simulation'[k] =
                             MathMin(Whole(FieldMax(k)),
                                     MathMax(Whole(0), v))
                      /\ InRange(v, FieldMax(k)) => simulation'[k] = v
                      /\ k = "rainfallMm" /\ v = Whole(500) =>
                             simulation'[k] = Whole(300)
                      /\ k = "rainfallMm" /\ v = Whole(-10) =>
                             simulation'[k] = Whole(0)]_vars

\* C16 witness: the update {500, 11, 101} has stored the three ceilings.
CeilingsStoredByUpdate ==
    /\ last.op = "postSimulation"
    /\ last.req = Payload(JNum(Whole(500)), JNum(Whole(11)), JNum(Whole(101)))
    /\ simulation = [rainfallMm |-> Whole(300), seismicMag |-> Whole(10),
                     blastingLevel |-> Whole(100)]


\* C18: the overview's weatherImpact is High when rainfallMm > 50, Moderate
\* when 10 < rainfallMm <= 50 and Low when rainfallMm <= 10: exactly 50 is
\* Moderate and exactly 10 is Low; 5 gives Low, 20 Moderate, 80 High
\* (SpecWeather).
WeatherImpactThresholds ==
    last.op = "getOverview" =>
        LET rain == simulation.rainfallMm
            impact == last.body.weatherImpact
        IN  /\ Gt(rain, Whole(50)) => impact = "High"
            /\ Gt(rain, Whole(10)) /\ Ge(Whole(50), rain) =>
                   impact = "Moderate"
            /\ Ge(Whole(10), rain) => impact = "Low"
            /\ rain = Whole(50) => impact = "Moderate"
            /\ rain = Whole(10) => impact = "Low"
            /\ rain = Whole(5) => impact = "Low"
            /\ rain = Whole(20) => impact = "Moderate"
            /\ rain = Whole(80) => impact = "High"

\* C18 witness: the overview has reported Moderate with the rainfall at
\* exactly 50.
ModerateAtFifty ==
    /\ last.op = "getOverview"
    /\ simulation.rainfallMm = Whole(50)
    /\ last.body.weatherImpact = "Moderate"


\* C19: when a tick completes the alert list has at most 50 entries and is
\* the first min(50, n) entries, in order, of the list as it stood after
\* the tick's insertions (n its length, k of them inserted in front of the
\* list before the tick); so a list longer than 50 loses exactly its oldest
\* entries beyond the 50th (SpecFull).
TickTruncates ==
    [][IsTickStep =>
          /\ Len(alerts') <= 50
          /\ \E k \in 0..2 :
                LET n == Len(alerts) + k
                IN  /\ Len(alerts') = IF n < 50 THEN n ELSE 50
                    /\ \A i \in 1..Len(alerts') :
                          i > k => alerts'[i] = alerts[i - k]
                    /\ \A i \in 1..k :
                          /\ alerts'[i].time = now
                          /\ ~alerts'[i].acknowledged
                          /\ \A j \in 1..Len(alerts) : alerts'[i] # alerts[j]]_vars

\* C19 witness: a tick has inserted an alert in a list of 51 and cut it to
\* 50, dropping the two oldest.
TickCutListToCap ==
    /\ last.op = "tick"
    /\ Len(alerts) = 50
    /\ alerts[1].msg = <<MalfunctionText>>
    /\ alerts[1].time = now
    /\ alerts[50].zone = "Simulated"


\* C20: in every reachable state the risk score is below 7.5 (it never
\* exceeds 6.9), so rule 1 of maybeCreateAlert is never taken and the only
\* "probability exceeded" alert ever in the list is the one present at
\* startup.  After a parameter update that is no number the score is NaN,
\* which is not below 7.5.
RiskBelowThreshold ==
    /\ Lt(RiskOf(simulation), Q(75, 10))
    /\ Ge(Q(69, 10), RiskOf(simulation))
    /\ ~Rule1Applies(RiskOf(simulation), alerts)
    /\ \A i \in Exceeded(alerts) :
          [alerts[i] EXCEPT !.acknowledged = FALSE] =
              InitialAlerts(StartTime)[1]

\* C20: what is left of it where the score is NaN: the score is never 7.5
\* or more, no tick takes rule 1, and no "probability exceeded" alert is
\* created.
Rule1NeverTaken ==
    /\ [](~Ge(RiskOf(simulation), Q(75, 10)))
    /\ [](\A i \in Exceeded(alerts) :
             [alerts[i] EXCEPT !.acknowledged = FALSE] =
                 InitialAlerts(StartTime)[1])
    /\ [][Cardinality(Exceeded(alerts')) <= Cardinality(Exceeded(alerts))]_vars


\* C21: in every map response and for every zone the severity agrees with
\* the score returned: High if and only if score > 0.7, Medium if and only
\* if 0.4 < score <= 0.7, Low otherwise.  The handler takes the severity
\* from the score before it is rounded to two decimals, so a zone scoring
\* 0.70375 is returned as High with score 0.7 (SpecMap).
MapSeverityAgreesWithScore ==
    last.op = "getMap" =>
        \A i \in 1..Len(last.body) :
            LET z == last.body[i]
            IN  /\ z.severity = "High" <=> Gt(z.score, Q(7, 10))
                /\ z.severity = "Medium" <=>
                       Gt(z.score, Q(4, 10)) /\ Ge(Q(7, 10), z.score)
                /\ z.severity = "Low" <=> Ge(Q(4, 10), z.score)


\* C22: in every reachable state the alert list is ordered newest-first:
\* of any two alerts, the one nearer the head was created no earlier than
\* the other, after any ticks, parameter updates, acknowledgments and
\* truncations (SpecFull).
AlertsNewestFirst ==
    \A i, j \in 1..Len(alerts) :
        i < j => alerts[i].time >= alerts[j].time

\* C22 witness: two ticks have each put an alert in front of the full list
\* and cut it to the cap.
NewerAlertAheadAfterCut ==
    /\ last.op = "tick"
    /\ Len(alerts) = 50
    /\ alerts[1].time > alerts[2].time
    /\ alerts[2].time > alerts[3].time

\* C23: acknowledgment is permanent and the only change made to an alert in
\* the list.  At every step the alerts that stay are the old list behind
\* the k alerts inserted, cut at the cap; each keeps its id, zone, msg,
\* severity and time, an acknowledged flag that is true stays true, and a
\* step that is no acknowledgment leaves the flag as it is too.
AckOnlyChangeAndPermanent ==
    [][\E k \in 0..2 :
          /\ Len(alerts') <= Len(alerts) + k
          /\ \A i \in 1..Len(alerts') :
                i > k =>
                    /\ \A f \in DOMAIN alerts[i - k] \ {"acknowledged"} :
                          alerts'[i][f] = alerts[i - k][f]
                    /\ alerts[i - k].acknowledged => alerts'[i].acknowledged
                    /\ ~IsAckStep => alerts'[i] = alerts[i - k]]_vars

\* C23 witness: a tick has inserted an alert ahead of the startup alert,
\* which was acknowledged before and is unchanged but for that.
AcknowledgedAlertKeptByTick ==
    /\ last.op = "tick"
    /\ Len(alerts) = 3
    /\ alerts[2] = [InitialAlerts(StartTime)[1] EXCEPT !.acknowledged = TRUE]
    /\ alerts[3] = InitialAlerts(StartTime)[2]


\* C24: for every simulation state within the clamps
\* generatePredictionSeries() returns exactly 6 values for the labels Now,
\* 1h, 3h, 6h, 12h, 24h in that order, every value is in [0,10], and the
\* "Now" value equals the current computeRiskScore() whatever the jitter
\* (SpecPredictions).
PredictionSeriesShape ==
    last.op = "getPredictions" /\ WithinClamps(simulation) =>
        LET series == last.body.series
        IN  /\ series.labels = <<"Now", "1h", "3h", "6h", "12h", "24h">>
            /\ Len(series.values) = 6
            /\ \A i \in 1..Len(series.values) :
                  /\ Ge(series.values[i], Whole(0))
                  /\ Ge(Whole(10), series.values[i])
            /\ series.values[1] = RiskOf(simulation)
            /\ series.values[1] = NumberOfString(last.body.currentRiskScore)

\* C24 witness: the predictions have been read with every field at its
\* ceiling and a positive jitter: Now is 6.9 and the series has reached 10.
SeriesFromCeilingScore ==
    /\ last.op = "getPredictions"
    /\ simulation = [rainfallMm |-> Whole(300), seismicMag |-> Whole(10),
                     blastingLevel |-> Whole(100)]
    /\ last.body.series.values[1] = Q(69, 10)
    /\ last.body.series.values[2] = Q(97, 10)
    /\ last.body.series.values[6] = Whole(10)

\* C25: once the Dashboard has unmounted, none of the interval timers it
\* created is active, whenever the responses to fetchSettings and to the
\* panel's save arrive.
NoTimerAfterUnmount ==
    dashboard.phase = "unmounted" => dashboard.timers = {}

====
